---- MODULE Spec2Model ----
(***************************************************************************)
(* A model of m90/rekwest: one request instance (the builder returned by   *)
(* New), its configuration calls, and Do: the accumulator check, the       *)
(* dispatch goroutine, the three-way select and the decoding of the        *)
(* response into the targets.                                              *)
(***************************************************************************)
EXTENDS Integers, Sequences, FiniteSets, TLC

\* ------------------------------------------------------------- bounds

\* Calls made on the instance: configuration calls and Do calls together.
MaxCalls == 3
\* Targets passed to one Do call.
MaxTargets == 2

\* ---------------------------------------------------- program constants

\* http.StatusBadRequest
StatusBadRequest == 400

ResponseFormatContentType == "content-type"
ResponseFormatJSON == "json"
ResponseFormatXML == "xml"
ResponseFormatBytes == "bytes"

targetFormatJSON == "json"
targetFormatXML == "xml"
targetFormatBytes == "bytes"
\* The zero value of targetFormat (var format targetFormat).
targetFormatZero == ""

acceptJSON == "application/json"
acceptXML == "text/xml, application/xml"

\* ------------------------------------------------------------- errors

\* An error value. The nil error, an error with a message (a message is a
\* sequence of text pieces), and a MultiError wrapping a list of errors.
NilErr == [kind |-> "nil"]

\* errors.New / fmt.Errorf / a library's error: a single error.
ErrorOf(msg) == [kind |-> "error", msg |-> msg]

\* MultiError{Errors: errs}, the value `return r.multiErr` hands out.
MultiErrorOf(errs) == [kind |-> "MultiError", Errors |-> errs]

RECURSIVE Join_Reversed(_)
\* The messages joined last to first.
Join_Reversed(msgs) ==
    IF msgs = <<>> THEN <<>>
    ELSE IF Len(msgs) = 1 THEN msgs[1]
    ELSE Join_Reversed(Tail(msgs)) \o <<", ">> \o msgs[1]

RECURSIVE Join(_)
\* strings.Join(collected, ", ") over the messages of a list of errors.
Join(msgs) ==
    IF msgs = <<>> THEN <<>>
    ELSE IF Len(msgs) = 1 THEN msgs[1]
    ELSE msgs[1] \o <<", ">> \o Join(Tail(msgs))

\* err.Error()
ErrorMsg(e) ==
    IF e.kind = "MultiError"
    THEN Join([i \in 1..Len(e.Errors) |-> e.Errors[i].msg])
    ELSE e.msg

\* %d of a status code.
Itoa(n) ==
    CASE n = 399 -> "399"
      [] n = 400 -> "400"
      [] n = 500 -> "500"

\* time.Duration values (nanoseconds) a caller configures, and %v of one.
Durations == {1000000, 1000000000}
DurationString(d) ==
    CASE d = 1000000 -> "1ms"
      [] d = 1000000000 -> "1s"

\* context.Canceled and context.DeadlineExceeded
ErrCanceled == ErrorOf(<<"context canceled">>)
ErrDeadlineExceeded == ErrorOf(<<"context deadline exceeded">>)

\* ------------------------------------------------------ mime.ParseMediaType

\* A Content-Type header value: the text before the first ";" and the
\* parameters after it. An absent header reads as the empty string.
NoContentType == [base |-> "", params |-> <<>>]
CharsetParam == [key |-> "charset", val |-> "utf-8"]
\* A parameter with no name, as in "application/json; =x".
BadParam == [key |-> "", val |-> "x"]

ContentTypes ==
    { NoContentType,
      [base |-> "application/json", params |-> <<>>],
      [base |-> "text/xml", params |-> <<>>],
      [base |-> "Application/XML", params |-> <<CharsetParam>>],
      [base |-> "text/plain", params |-> <<CharsetParam>>],
      [base |-> "application/json", params |-> <<BadParam>>] }

\* strings.TrimSpace(strings.ToLower(base))
ToLower(s) ==
    CASE s = "Application/XML" -> "application/xml"
      [] OTHER -> s

RECURSIVE ParamsErr(_)
\* The parameter loop of ParseMediaType: a parameter without a name is a
\* parse error.
ParamsErr(ps) ==
    IF ps = <<>> THEN NilErr
    ELSE IF Head(ps).key = "" THEN ErrorOf(<<"mime: invalid media parameter">>)
    ELSE ParamsErr(Tail(ps))

\* mime.ParseMediaType(v): the lower-cased media type and an error. With no
\* media type the error comes with an empty media type; with a bad
\* parameter the media type comes with the error.
ParseMediaType(v) ==
    LET m == ToLower(v.base) IN
    IF m = "" THEN [m |-> "", err |-> ErrorOf(<<"mime: no media type">>)]
    ELSE [m |-> m, err |-> ParamsErr(v.params)]

\* inferTargetFormat with the media type compared against a different list.
inferTargetFormat_NoTextXML(contentType) ==
    LET p == ParseMediaType(contentType) IN
    CASE p.m = "application/json" -> [f |-> targetFormatJSON, err |-> p.err]
      [] p.m = "application/xml" -> [f |-> targetFormatXML, err |-> p.err]
      [] OTHER -> [f |-> targetFormatBytes, err |-> p.err]

\* inferTargetFormat(contentType)
inferTargetFormat(contentType) ==
    LET p == ParseMediaType(contentType) IN
    CASE p.m = "application/json" -> [f |-> targetFormatJSON, err |-> p.err]
      [] p.m \in {"text/xml", "application/xml"} -> [f |-> targetFormatXML, err |-> p.err]
      [] OTHER -> [f |-> targetFormatBytes, err |-> p.err]

\* ------------------------------------------------------------ targets

\* A target handed to Do: its Go type and the value it holds (for a pointer,
\* the value it points to). A value is a sequence of text pieces.
BytesPtr(v) == [type |-> "*[]uint8", val |-> v]
StructPtr(v) == [type |-> "*rekwest.responseType", val |-> v]
StructVal(v) == [type |-> "rekwest.responseType", val |-> v]

\* The pointers a caller passes: to a byte slice with content, to a zero
\* struct.
PointerTargets == { BytesPtr(<<"x">>), StructPtr(<<>>) }

RECURSIVE SeqsUpTo(_, _)
\* All sequences over S of length at most n.
SeqsUpTo(S, n) ==
    IF n = 0 THEN { <<>> }
    ELSE LET shorter == SeqsUpTo(S, n - 1) IN
         shorter \cup { Append(q, x) : q \in { t \in shorter : Len(t) = n - 1 }, x \in S }

\* The target lists a caller passes to Do: pointers, or a struct passed by
\* value, alone or followed by one pointer.
TargetLists ==
    LET ptrs == SeqsUpTo(PointerTargets, MaxTargets) IN
    ptrs \cup { <<StructVal(<<>>)>> \o q : q \in { t \in ptrs : Len(t) < 2 } }

\* reflect.ValueOf(target).Kind()
KindOf(t) == IF t.type \in {"*[]uint8", "*rekwest.responseType"} THEN "ptr" ELSE "struct"

\* v.Elem().Type().String()
ElemTypeString(t) ==
    CASE t.type = "*[]uint8" -> "[]uint8"
      [] t.type = "*rekwest.responseType" -> "rekwest.responseType"

\* ----------------------------------------------------- response bodies

\* Response bodies: a JSON object, an XML element, a truncated JSON object.
Bodies == { <<"{", "a", "}">>, <<"<", "a", ">">>, <<"{", "a">> }

\* The error of a failing Read of the response body.
ErrRead == ErrorOf(<<"read: connection reset">>)
ErrEOF == ErrorOf(<<"EOF">>)

\* result.res.Body as the decoders see it: the bytes not read yet, and
\* whether the stream ends in a read error rather than in EOF.
StreamOf(res) == [rest |-> res.body, readErr |-> res.readErr]

\* What is left of the stream once a reader has drained it.
Drained(stream) == [rest |-> <<>>, readErr |-> stream.readErr]

\* ioutil.ReadAll(body): the bytes left, and the read error if any.
ReadAll(stream) ==
    [b |-> stream.rest, err |-> IF stream.readErr THEN ErrRead ELSE NilErr]

\* The error a decoder reports when the input ends before a value does.
EndOfInput(stream, eof) == IF stream.readErr THEN ErrRead ELSE eof

\* json.NewDecoder(body).Decode(target): the target afterwards and the error.
JSONDecode(stream, target) ==
    LET d == stream.rest IN
    IF d = <<>> THEN [target |-> target, err |-> EndOfInput(stream, ErrEOF)]
    ELSE IF d[1] # "{" THEN
        [target |-> target,
         err |-> ErrorOf(<<"invalid character '", d[1], "' looking for beginning of value">>)]
    ELSE IF d[Len(d)] # "}" THEN
        [target |-> target, err |-> EndOfInput(stream, ErrorOf(<<"unexpected EOF">>))]
    ELSE IF KindOf(target) # "ptr" THEN
        [target |-> target, err |-> ErrorOf(<<"json: Unmarshal(non-pointer ", target.type, ")">>)]
    ELSE IF target.type = "*[]uint8" THEN
        [target |-> target,
         err |-> ErrorOf(<<"json: cannot unmarshal object into Go value of type []uint8">>)]
    ELSE [target |-> [target EXCEPT !.val = SubSeq(d, 2, Len(d) - 1)], err |-> NilErr]

\* xml.NewDecoder(body).Decode(target): the target afterwards and the error.
XMLDecode(stream, target) ==
    LET d == stream.rest IN
    IF KindOf(target) # "ptr" THEN
        [target |-> target, err |-> ErrorOf(<<"non-pointer passed to Unmarshal">>)]
    ELSE IF d = <<>> \/ d[1] # "<" THEN
        [target |-> target, err |-> EndOfInput(stream, ErrEOF)]
    ELSE IF d[Len(d)] # ">" THEN
        [target |-> target,
         err |-> EndOfInput(stream, ErrorOf(<<"XML syntax error on line 1: unexpected EOF">>))]
    ELSE [target |-> [target EXCEPT !.val = SubSeq(d, 2, Len(d) - 1)], err |-> NilErr]

\* --------------------------------------------- format resolution, decoding

\* The first switch with the bytes format as its default case.
ResolveFormat_BytesDefault(rf, contentType) ==
    IF rf \in {ResponseFormatJSON, ResponseFormatXML}
    THEN [format |-> rf, errs |-> <<>>]
    ELSE IF rf = ResponseFormatContentType
    THEN LET i == inferTargetFormat(contentType) IN
         IF i.err # NilErr
         THEN [format |-> targetFormatZero, errs |-> <<i.err>>]
         ELSE [format |-> i.f, errs |-> <<>>]
    ELSE [format |-> targetFormatBytes, errs |-> <<>>]

\* The first switch with a forced format giving way to a Content-Type
\* header that names JSON or XML.
ResolveFormat_HeaderFirst(rf, contentType) ==
    LET i == inferTargetFormat(contentType) IN
    IF rf \in {ResponseFormatJSON, ResponseFormatXML, ResponseFormatBytes}
    THEN [format |-> IF i.err = NilErr /\ i.f # targetFormatBytes THEN i.f ELSE rf,
          errs |-> <<>>]
    ELSE IF rf = ResponseFormatContentType
    THEN IF i.err # NilErr
         THEN [format |-> targetFormatZero, errs |-> <<i.err>>]
         ELSE [format |-> i.f, errs |-> <<>>]
    ELSE [format |-> targetFormatZero,
          errs |-> <<ErrorOf(<<"found unknown response format ", rf>>)>>]

\* The first switch of Do's target loop: the format to decode with and the
\* errors appended. `format` keeps its zero value when the content type
\* cannot be parsed and when the response format is unknown.
ResolveFormat(rf, contentType) ==
    IF rf \in {ResponseFormatJSON, ResponseFormatXML, ResponseFormatBytes}
    THEN [format |-> rf, errs |-> <<>>]
    ELSE IF rf = ResponseFormatContentType
    THEN LET i == inferTargetFormat(contentType) IN
         IF i.err # NilErr
         THEN [format |-> targetFormatZero, errs |-> <<i.err>>]
         ELSE [format |-> i.f, errs |-> <<>>]
    ELSE [format |-> targetFormatZero,
          errs |-> <<ErrorOf(<<"found unknown response format ", rf>>)>>]

\* case targetFormatBytes without the check of the element type.
DecodeBytes_NoElemCheck(stream, target) ==
    LET r == ReadAll(stream)
        readErrs == IF r.err # NilErr THEN <<r.err>> ELSE <<>>
    IN
    IF KindOf(target) # "ptr"
    THEN [target |-> target,
          errs |-> Append(readErrs,
              ErrorOf(<<"expected pointer kind, encountered ", KindOf(target),
                        " when decoding into target element">>))]
    ELSE [target |-> [target EXCEPT !.val = r.b], errs |-> readErrs]

\* case targetFormatBytes of the second switch.
DecodeBytes(stream, target) ==
    LET r == ReadAll(stream)
        readErrs == IF r.err # NilErr THEN <<r.err>> ELSE <<>>
    IN
    IF KindOf(target) # "ptr"
    THEN [target |-> target,
          errs |-> Append(readErrs,
              ErrorOf(<<"expected pointer kind, encountered ", KindOf(target),
                        " when decoding into target element">>))]
    ELSE IF ElemTypeString(target) # "[]uint8"
    THEN [target |-> target,
          errs |-> Append(readErrs,
              ErrorOf(<<"expected byte slice elem, encountered ", ElemTypeString(target),
                        " when decoding into target element">>))]
    ELSE [target |-> [target EXCEPT !.val = r.b], errs |-> readErrs]

\* The second switch of Do's target loop: the target afterwards, the errors
\* appended and what is left of the body. Every decoder reads the one body
\* of the response; with the zero format nothing is read.
DecodeOne(format, stream, target) ==
    CASE format = targetFormatJSON ->
            LET d == JSONDecode(stream, target) IN
            [target |-> d.target,
             errs |-> IF d.err # NilErr THEN <<d.err>> ELSE <<>>,
             stream |-> Drained(stream)]
      [] format = targetFormatXML ->
            \* the XML decoder turns a non-pointer down before it reads
            LET d == XMLDecode(stream, target) IN
            [target |-> d.target,
             errs |-> IF d.err # NilErr THEN <<d.err>> ELSE <<>>,
             stream |-> IF KindOf(target) # "ptr" THEN stream ELSE Drained(stream)]
      [] format = targetFormatBytes ->
            LET d == DecodeBytes(stream, target) IN
            [target |-> d.target, errs |-> d.errs, stream |-> Drained(stream)]
      [] OTHER -> [target |-> target, errs |-> <<>>, stream |-> stream]

RECURSIVE DecodeTargets_StopAtError(_, _, _, _)
\* The target loop leaving at the first target that records an error.
DecodeTargets_StopAtError(i, rf, contentType, st) ==
    IF i > Len(st.targets) THEN st
    ELSE LET f == ResolveFormat(rf, contentType)
             d == DecodeOne(f.format, st.stream, st.targets[i])
             next == [targets |-> [st.targets EXCEPT ![i] = d.target],
                      errors |-> st.errors \o f.errs \o d.errs,
                      stream |-> d.stream,
                      applied |-> Append(st.applied, f.format)]
         IN IF f.errs \o d.errs # <<>> THEN next
            ELSE DecodeTargets_StopAtError(i + 1, rf, contentType, next)

RECURSIVE DecodeTargets(_, _, _, _)
\* for _, target := range targets { ... }, from target i on. st holds the
\* targets, the accumulated errors, the body stream and, per target handled,
\* the format the second switch saw.
DecodeTargets(i, rf, contentType, st) ==
    IF i > Len(st.targets) THEN st
    ELSE LET f == ResolveFormat(rf, contentType)
             d == DecodeOne(f.format, st.stream, st.targets[i])
         IN DecodeTargets(i + 1, rf, contentType,
                [targets |-> [st.targets EXCEPT ![i] = d.target],
                 errors |-> st.errors \o f.errs \o d.errs,
                 stream |-> d.stream,
                 applied |-> Append(st.applied, f.format)])

\* r.OK() that does not look at the accumulator.
OK_Always(errs) == TRUE

\* r.OK()
OK(errs) == Len(errs) = 0

\* A status check that lets http.StatusBadRequest itself pass.
StatusFailed_Strict(code) == code > StatusBadRequest

\* result.res.StatusCode >= http.StatusBadRequest
StatusFailed(code) == code >= StatusBadRequest

\* The error of the status check: the status code and the body text, or the
\* error of reading the body.
StatusError(code, stream) ==
    LET r == ReadAll(stream) IN
    ErrorOf(<<"request failed with status ", Itoa(code), ": ">>
            \o (IF r.err # NilErr THEN r.err.msg ELSE r.b))

\* The timeout error with the pointer printed in place of the duration.
TimeoutError_Pointer(t) == ErrorOf(<<"exceeded request timeout of ", "0xc000012345">>)

\* fmt.Errorf("exceeded request timeout of %v", r.timeout)
TimeoutError(t) == ErrorOf(<<"exceeded request timeout of ", DurationString(t.d)>>)

\* case result := <-receive, to the end of Do: what Do returns, the targets
\* and the accumulator afterwards.
HandleResult(result, ts, errs, rf) ==
    IF result.err # NilErr
    THEN [ret |-> result.err, targets |-> ts, errors |-> errs, applied |-> <<>>,
          outcome |-> "TransportFailed"]
    ELSE IF StatusFailed(result.status)
    THEN [ret |-> StatusError(result.status, StreamOf(result)), targets |-> ts,
          errors |-> errs, applied |-> <<>>, outcome |-> "StatusFailed"]
    ELSE LET st == DecodeTargets(1, rf, result.ctype,
                     [targets |-> ts, errors |-> errs, stream |-> StreamOf(result),
                      applied |-> <<>>])
         IN [ret |-> IF ~OK(st.errors) THEN MultiErrorOf(st.errors) ELSE NilErr,
             targets |-> st.targets, errors |-> st.errors, applied |-> st.applied,
             outcome |-> "Decoding"]

\* ---------------------------------------------------------------- state

VARIABLES
    \* the request's fields
    errors,          \* multiErr.Errors
    method,
    body,            \* the bytes of the request body, <<>> with none
    header,          \* per key, the values added, in order
    basicAuth,
    bearerToken,
    context,         \* "background", or "ctx": a context the caller supplied
    responseFormat,
    timeout,         \* [set |-> FALSE] for nil, or a duration
    \* the caller's context
    ctxErr,          \* ctx.Err(): nil until the context is done
    \* the Do call in progress or last made
    pc,              \* "idle", "select" (at the select), "parked" (in it),
                     \* "reading" (in a read of the body that does not end), "done"
    targets,         \* the targets passed, as they are now
    ret,             \* what Do returned
    timer,           \* the timeout context of the Do call in progress: "off" with
                     \* none (and once the deferred cancel() has run), "running",
                     \* "fired"
    g,               \* per Do call, its dispatch goroutine
    \* history
    nConfig,         \* configuration calls made so far
    nDo,             \* Do calls made so far
    outcome,         \* how the last Do call ended
    applied,         \* per target of the last Do, the format it was decoded with
    targets0,        \* the targets as they were passed
    errors0,         \* the accumulator when Do was called
    received,        \* the doResult the last Do call received, if any
    built,           \* the errors of the configuration calls, in call order
    added,           \* per header key, the values the calls added, in call order
    \* a second instance
    otherErrors      \* its multiErr.Errors

vars == <<errors, method, body, header, basicAuth, bearerToken, context,
          responseFormat, timeout, ctxErr, pc, targets, ret, timer, g,
          nConfig, nDo, outcome, applied, targets0, errors0, received, built,
          added, otherErrors>>

\* What the calls on the first instance, and the steps of its Do calls,
\* leave alone unless they say otherwise.
apart == <<built, added, otherErrors>>

fields == <<errors, method, body, header, basicAuth, bearerToken, context,
            responseFormat, timeout>>

\* What a Do call leaves with its caller; the next call on the instance
\* starts from a clean slate.
last == <<pc, targets, ret, timer, outcome, applied, targets0, errors0, received>>

HeaderKeys == {"Accept", "Authorization"}
NoTimeout == [set |-> FALSE, d |-> 0]
NoCredentials == [set |-> FALSE, userName |-> "", password |-> ""]

\* A doResult without a response.
NoResult == [err |-> NilErr, status |-> 0, ctype |-> NoContentType, body |-> <<>>,
             readErr |-> FALSE]
NoWire == [method |-> "", body |-> <<>>, header |-> [k \in HeaderKeys |-> <<>>]]
\* A goroutine is at "start", in "transport" (inside r.client.Do), at one of
\* its two sends ("sendReqErr", "sendResult"), or has "exited".
NoGoroutine == [pc |-> "none", wire |-> NoWire]

\* New(url)
Init ==
    /\ errors = <<>>
    /\ method = "GET"
    /\ body = <<>>
    /\ header = [k \in HeaderKeys |-> <<>>]
    /\ basicAuth = NoCredentials
    /\ bearerToken = ""
    /\ context = "background"
    /\ responseFormat = ResponseFormatContentType
    /\ timeout = NoTimeout
    /\ ctxErr = NilErr
    /\ pc = "idle"
    /\ targets = <<>>
    /\ ret = NilErr
    /\ timer = "off"
    /\ g = [i \in 1..MaxCalls |-> NoGoroutine]
    /\ nConfig = 0
    /\ nDo = 0
    /\ outcome = "none"
    /\ applied = <<>>
    /\ targets0 = <<>>
    /\ errors0 = <<>>
    /\ received = NoResult
    /\ built = <<>>
    /\ added = [k \in HeaderKeys |-> <<>>]
    /\ otherErrors = <<>>

\* ------------------------------------------------------- configuration

\* The caller moves on from the Do call it made last: its targets, the
\* error it got and Do's timeout context are no longer looked at.
Forget ==
    /\ pc' = "idle"
    /\ targets' = <<>>
    /\ ret' = NilErr
    /\ timer' = "off"
    /\ outcome' = "none"
    /\ applied' = <<>>
    /\ targets0' = <<>>
    /\ errors0' = <<>>
    /\ received' = NoResult

\* The caller is between Do calls and may make another configuration call.
CanConfigure == pc \in {"idle", "done"} /\ nConfig + nDo < MaxCalls

\* textproto.CanonicalMIMEHeaderKey, which http.Header.Add applies to the key.
CanonicalHeaderKey(key) ==
    CASE key \in {"accept", "Accept"} -> "Accept"
      [] key \in {"authorization", "Authorization"} -> "Authorization"

\* r.header.Add(key, value)
HeaderAdd(h, key, value) == [h EXCEPT ![CanonicalHeaderKey(key)] = Append(@, value)]

Methods == {"bad method"}

Method(m) ==
    /\ CanConfigure
    /\ method' = m
    /\ nConfig' = nConfig + 1
    /\ UNCHANGED <<errors, body, header, basicAuth, bearerToken, context,
                   responseFormat, timeout, ctxErr>>
    /\ Forget
    /\ UNCHANGED <<g, nDo, apart>>

\* The error of a failing marshal func (json.Marshal of a func value).
ErrMarshal == ErrorOf(<<"json: unsupported type: func() string">>)

\* MarshalBody starting the accumulator afresh with the error of its
\* marshal func.
MarshalBody_Reset(ok, b) ==
    /\ CanConfigure
    /\ IF ok
       THEN body' = b /\ UNCHANGED <<errors, built>>
       ELSE /\ errors' = <<ErrMarshal>>
            /\ built' = Append(built, ErrMarshal)
            /\ UNCHANGED body
    /\ nConfig' = nConfig + 1
    /\ UNCHANGED <<method, header, basicAuth, bearerToken, context,
                   responseFormat, timeout, ctxErr>>
    /\ Forget
    /\ UNCHANGED <<g, nDo, added, otherErrors>>

\* MarshalBody taking the body away when its marshal func fails.
MarshalBody_DropsBody(ok, b) ==
    /\ CanConfigure
    /\ IF ok
       THEN body' = b /\ UNCHANGED <<errors, built>>
       ELSE /\ errors' = Append(errors, ErrMarshal)
            /\ built' = Append(built, ErrMarshal)
            /\ body' = <<>>
    /\ nConfig' = nConfig + 1
    /\ UNCHANGED <<method, header, basicAuth, bearerToken, context,
                   responseFormat, timeout, ctxErr>>
    /\ Forget
    /\ UNCHANGED <<g, nDo, added, otherErrors>>

\* MarshalBody(data, marshalFunc), JSONBody and XMLBody through it: ok says
\* whether marshalFunc succeeded, b is what it returned.
MarshalBody(ok, b) ==
    /\ CanConfigure
    /\ IF ok
       THEN body' = b /\ UNCHANGED <<errors, built>>
       ELSE /\ errors' = Append(errors, ErrMarshal)
            /\ built' = Append(built, ErrMarshal)
            /\ UNCHANGED body
    /\ nConfig' = nConfig + 1
    /\ UNCHANGED <<method, header, basicAuth, bearerToken, context,
                   responseFormat, timeout, ctxErr>>
    /\ Forget
    /\ UNCHANGED <<g, nDo, added, otherErrors>>

\* Context(ctx), with a context that is not done yet.
Context ==
    /\ CanConfigure
    /\ context' = "ctx"
    /\ nConfig' = nConfig + 1
    /\ UNCHANGED <<errors, method, body, header, basicAuth, bearerToken,
                   responseFormat, timeout, ctxErr>>
    /\ Forget
    /\ UNCHANGED <<g, nDo, apart>>

\* The formats a caller passes to ResponseFormat.
Formats == {ResponseFormatJSON, ResponseFormatXML, ResponseFormatBytes, "zalgo", ""}

\* ResponseFormat emptying the accumulator: a new format, a new start.
ResponseFormat_Clearing(format) ==
    /\ CanConfigure
    /\ header' = CASE format = ResponseFormatJSON -> HeaderAdd(header, "Accept", acceptJSON)
                   [] format = ResponseFormatXML -> HeaderAdd(header, "Accept", acceptXML)
                   [] OTHER -> header
    /\ responseFormat' = format
    /\ errors' = <<>>
    /\ nConfig' = nConfig + 1
    /\ added' = CASE format = ResponseFormatJSON ->
                          [added EXCEPT !["Accept"] = @ \o <<acceptJSON>>]
                  [] format = ResponseFormatXML ->
                          [added EXCEPT !["Accept"] = @ \o <<acceptXML>>]
                  [] OTHER -> added
    /\ UNCHANGED <<method, body, basicAuth, bearerToken, context, timeout, ctxErr>>
    /\ Forget
    /\ UNCHANGED <<g, nDo, built, otherErrors>>

ResponseFormat(format) ==
    /\ CanConfigure
    /\ header' = CASE format = ResponseFormatJSON -> HeaderAdd(header, "Accept", acceptJSON)
                   [] format = ResponseFormatXML -> HeaderAdd(header, "Accept", acceptXML)
                   [] OTHER -> header
    /\ responseFormat' = format
    /\ nConfig' = nConfig + 1
    /\ added' = CASE format = ResponseFormatJSON ->
                          [added EXCEPT !["Accept"] = @ \o <<acceptJSON>>]
                  [] format = ResponseFormatXML ->
                          [added EXCEPT !["Accept"] = @ \o <<acceptXML>>]
                  [] OTHER -> added
    /\ UNCHANGED <<errors, method, body, basicAuth, bearerToken, context,
                   timeout, ctxErr>>
    /\ Forget
    /\ UNCHANGED <<g, nDo, built, otherErrors>>

Timeout(value) ==
    /\ CanConfigure
    /\ timeout' = [set |-> TRUE, d |-> value]
    /\ nConfig' = nConfig + 1
    /\ UNCHANGED <<errors, method, body, header, basicAuth, bearerToken, context,
                   responseFormat, ctxErr>>
    /\ Forget
    /\ UNCHANGED <<g, nDo, apart>>

\* The keys and values a caller passes to Header.
CallerKeys == {"Accept", "authorization"}
HeaderValues == {"a", "b"}

\* Header(key, value)
Header(key, value) ==
    /\ CanConfigure
    /\ header' = HeaderAdd(header, key, value)
    /\ added' = [added EXCEPT ![CanonicalHeaderKey(key)] = @ \o <<value>>]
    /\ nConfig' = nConfig + 1
    /\ UNCHANGED <<errors, method, body, basicAuth, bearerToken, context,
                   responseFormat, timeout, ctxErr>>
    /\ Forget
    /\ UNCHANGED <<g, nDo, built, otherErrors>>

\* The maps a caller passes to Headers, as sets of key/value pairs: one with
\* two keys that are the same header key, one with two header keys.
HeaderMaps ==
    { { <<"Accept", "a">>, <<"accept", "b">> },
      { <<"Accept", "b">>, <<"authorization", "a">> } }

\* The orders in which a range over a map may visit its entries.
RangeOrders(hm) ==
    { order \in [1..Cardinality(hm) -> hm] :
        \A i, j \in 1..Cardinality(hm) : i # j => order[i] # order[j] }

RECURSIVE AddAll(_, _)
\* for key, value := range headers { r.header.Add(key, value) }
AddAll(h, order) ==
    IF order = <<>> THEN h
    ELSE AddAll(HeaderAdd(h, order[1][1], order[1][2]), Tail(order))

\* The values a range over a map, in the order it took, added for a header
\* key.
ValuesFor(order, k) ==
    LET IsFor(entry) == CanonicalHeaderKey(entry[1]) = k
        entries == SelectSeq(order, IsFor)
    IN [i \in 1..Len(entries) |-> entries[i][2]]

\* Headers(headers): the map is ranged over in an order of the runtime's
\* choosing.
Headers(hm) ==
    /\ CanConfigure
    /\ \E order \in RangeOrders(hm) :
        /\ header' = AddAll(header, order)
        /\ added' = [k \in HeaderKeys |-> added[k] \o ValuesFor(order, k)]
    /\ nConfig' = nConfig + 1
    /\ UNCHANGED <<errors, method, body, basicAuth, bearerToken, context,
                   responseFormat, timeout, ctxErr>>
    /\ Forget
    /\ UNCHANGED <<g, nDo, built, otherErrors>>

\* BasicAuth(username, password)
BasicAuth(username, password) ==
    /\ CanConfigure
    /\ basicAuth' = [set |-> TRUE, userName |-> username, password |-> password]
    /\ nConfig' = nConfig + 1
    /\ UNCHANGED <<errors, method, body, header, bearerToken, context,
                   responseFormat, timeout, ctxErr>>
    /\ Forget
    /\ UNCHANGED <<g, nDo, apart>>

\* The tokens a caller passes to BearerToken.
Tokens == {"", "tok"}

\* BearerToken(token)
BearerToken(token) ==
    /\ CanConfigure
    /\ bearerToken' = token
    /\ nConfig' = nConfig + 1
    /\ UNCHANGED <<errors, method, body, header, basicAuth, context,
                   responseFormat, timeout, ctxErr>>
    /\ Forget
    /\ UNCHANGED <<g, nDo, apart>>

\* MarshalBody on a second instance made by New, with a marshal func that
\* fails.
OtherMarshalBody ==
    /\ pc \in {"idle", "done"}
    /\ nConfig + nDo < MaxCalls
    /\ otherErrors' = Append(otherErrors, ErrMarshal)
    /\ nConfig' = nConfig + 1
    /\ UNCHANGED <<fields, ctxErr, last, g, nDo, built, added>>

\* ------------------------------------------------------------------ Do

\* Do(targets...), up to the select: the accumulator check, the timeout
\* context, the result channel and the go statement.
DoCall(ts) ==
    /\ pc \in {"idle", "done"}
    /\ nConfig + nDo < MaxCalls
    /\ nDo' = nDo + 1
    /\ targets' = ts
    /\ targets0' = ts
    /\ errors0' = errors
    /\ applied' = <<>>
    /\ received' = NoResult
    /\ IF ~OK(errors)
       THEN /\ ret' = MultiErrorOf(errors)
            /\ pc' = "done"
            /\ outcome' = "NotOK"
            /\ timer' = "off"
            /\ UNCHANGED g
       ELSE /\ ret' = NilErr
            /\ pc' = "select"
            /\ outcome' = "pending"
            /\ timer' = IF timeout.set THEN "running" ELSE "off"
            /\ g' = [g EXCEPT ![nDo + 1] = [NoGoroutine EXCEPT !.pc = "start"]]
    /\ UNCHANGED <<fields, ctxErr, nConfig, apart>>

\* http.NewRequest fails on a method that is no token.
ValidMethod(m) == m \in {"GET", "POST"}

\* The Authorization value SetBasicAuth sets.
BasicAuthValue(c) == <<"Basic ", "base64(", c.userName, ":", c.password, ")">>

\* The header of the wire request with basic auth applied after the bearer
\* token.
WireHeader_BasicLast(h, auth, token) ==
    LET first == [k \in HeaderKeys |-> IF h[k] = <<>> THEN <<>> ELSE <<h[k][1]>>]
        withBearer == IF token # ""
                      THEN [first EXCEPT !["Authorization"] = <<"Bearer ", token>>]
                      ELSE first
    IN IF auth.set
       THEN [withBearer EXCEPT !["Authorization"] = BasicAuthValue(auth)]
       ELSE withBearer

\* The header of the wire request with the value added last of each
\* configured key.
WireHeader_LastValue(h, auth, token) ==
    LET lastOf == [k \in HeaderKeys |-> IF h[k] = <<>> THEN <<>> ELSE <<h[k][Len(h[k])]>>]
        withBasic == IF auth.set
                     THEN [lastOf EXCEPT !["Authorization"] = BasicAuthValue(auth)]
                     ELSE lastOf
    IN IF token # ""
       THEN [withBasic EXCEPT !["Authorization"] = <<"Bearer ", token>>]
       ELSE withBasic

\* The header of the wire request: the first value of each configured key,
\* then basic auth, then the bearer token.
WireHeader(h, auth, token) ==
    LET first == [k \in HeaderKeys |-> IF h[k] = <<>> THEN <<>> ELSE <<h[k][1]>>]
        withBasic == IF auth.set
                     THEN [first EXCEPT !["Authorization"] = BasicAuthValue(auth)]
                     ELSE first
    IN IF token # ""
       THEN [withBasic EXCEPT !["Authorization"] = <<"Bearer ", token>>]
       ELSE withBasic

\* The error of http.NewRequest.
ErrNewRequest == ErrorOf(<<"net/http: invalid method">>)

\* The goroutine going on to r.client.Do(req) with a request that could not
\* be built (no return after the send of reqErr).
GoStart_NoReturn(i) ==
    /\ g[i].pc = "start"
    /\ g' = [g EXCEPT ![i].pc = "transport",
                      ![i].wire = [method |-> method, body |-> body,
                                   header |-> WireHeader(header, basicAuth, bearerToken)]]
    /\ UNCHANGED <<fields, ctxErr, pc, targets, ret, timer, nConfig, nDo, outcome,
                   applied, targets0, errors0, received, apart>>

\* The goroutine, from its start to the call of r.client.Do(req): it builds
\* the request from the fields as they are when it runs. With a request that
\* cannot be built it goes on to send the error.
GoStart(i) ==
    /\ g[i].pc = "start"
    /\ IF ~ValidMethod(method)
       THEN g' = [g EXCEPT ![i].pc = "sendReqErr"]
       ELSE g' = [g EXCEPT ![i].pc = "transport",
                           ![i].wire = [method |-> method, body |-> body,
                                        header |-> WireHeader(header, basicAuth, bearerToken)]]
    /\ UNCHANGED <<fields, ctxErr, pc, targets, ret, timer, nConfig, nDo, outcome,
                   applied, targets0, errors0, received, apart>>

Statuses == {399, 400, 500}

\* The responses a server gives.
TextPlain == [base |-> "text/plain", params |-> <<CharsetParam>>]

\* The responses a server gives: below 400 with every content type and
\* body, 400 as text/plain or with no content type, 500 as text/plain; the
\* text/plain ones below 500 also with a body that fails to read. Where
\* nothing looks at the body (no media type to decode it by, a failed status
\* with a read error or without a content type, status 500) it is the first
\* of the bodies.
Responses ==
    { r \in [err : {NilErr}, status : Statuses, ctype : ContentTypes, body : Bodies,
             readErr : BOOLEAN] :
        /\ r.readErr => r.ctype = TextPlain
        /\ r.status >= 400 => r.ctype \in {NoContentType, TextPlain}
        /\ r.status = 500 => r.ctype = TextPlain /\ ~r.readErr
        /\ (\/ inferTargetFormat(r.ctype).err # NilErr
            \/ r.status >= 400 /\ (r.readErr \/ r.ctype = NoContentType)
            \/ r.status = 500) => r.body = <<"{", "a", "}">> }

\* The error of a failing transport.
ErrTransport == ErrorOf(<<"i'm just a bad transport">>)

\* What r.client.Do(req) returns: a response, or an error.
TransportResults == Responses \cup { [NoResult EXCEPT !.err = ErrTransport] }

\* doResult{nil, reqErr}
ReqErrResult == [NoResult EXCEPT !.err = ErrNewRequest]

\* r.client.Do(req) returns in goroutine i, which goes on to send the result.
\* What it returned is drawn where the result is received: nothing reads it
\* before.
TransportReturn(i) ==
    /\ g[i].pc = "transport"
    /\ g' = [g EXCEPT ![i].pc = "sendResult"]
    /\ UNCHANGED <<fields, ctxErr, pc, targets, ret, timer, nConfig, nDo, outcome,
                   applied, targets0, errors0, received, apart>>

\* The cases of the select that can proceed.
TimeoutReady == timer = "fired"
ContextReady == context = "ctx" /\ ctxErr # NilErr
ReceiveReady == g[nDo].pc \in {"sendReqErr", "sendResult"}

\* What the goroutine of the call in progress sends.
Sendable ==
    IF g[nDo].pc = "sendReqErr"
    THEN { ReqErrResult }
    ELSE TransportResults

\* Do is parked in the select with no sender on the result channel yet: the
\* first of the three channels to become ready wakes it, with that case.
Parked == pc = "parked" /\ ~ReceiveReady

\* The timeout context's deadline passes before Do is parked in the select.
TimerFire ==
    /\ pc = "select"
    /\ timer = "running"
    /\ timer' = "fired"
    /\ UNCHANGED <<fields, ctxErr, pc, targets, ret, g, nConfig, nDo, outcome,
                   applied, targets0, errors0, received, apart>>

\* The caller's context is cancelled, or its deadline passes, while no Do
\* call is parked on it.
ContextDone(e) ==
    /\ context = "ctx"
    /\ ctxErr = NilErr
    /\ ~Parked
    /\ ctxErr' = e
    /\ UNCHANGED <<fields, last, g, nDo, nConfig, apart>>

\* The timeout case and the context case recording their error in the
\* accumulator before they return it.
ReturnEarly_Recorded(e, how) ==
    /\ ret' = e
    /\ errors' = Append(errors, e)
    /\ outcome' = how
    /\ pc' = "done"
    /\ timer' = "off"
    /\ UNCHANGED <<method, body, header, basicAuth, bearerToken, context,
                   responseFormat, timeout, targets, g, nConfig, nDo, applied,
                   targets0, errors0, received, apart>>

\* return <error> from the timeout case or the context case of the select;
\* the deferred cancel() stops the timeout context.
ReturnEarly(e, how) ==
    /\ ret' = e
    /\ outcome' = how
    /\ pc' = "done"
    /\ timer' = "off"
    /\ UNCHANGED <<fields, targets, g, nConfig, nDo, applied, targets0, errors0,
                   received, apart>>

\* case <-timeout.Done(), selected among the cases that are ready.
SelectTimeout ==
    /\ pc = "select"
    /\ TimeoutReady
    /\ ReturnEarly(TimeoutError(timeout), "TimedOut")
    /\ UNCHANGED ctxErr

\* case <-r.context.Done(), taken only when no result is ready.
SelectContext_AfterReceive ==
    /\ pc = "select"
    /\ ContextReady
    /\ ~ReceiveReady
    /\ ReturnEarly(ctxErr, "Cancelled")
    /\ UNCHANGED ctxErr

\* case <-r.context.Done(), selected among the cases that are ready.
SelectContext ==
    /\ pc = "select"
    /\ ContextReady
    /\ ReturnEarly(ctxErr, "Cancelled")
    /\ UNCHANGED ctxErr

\* The select finds no case ready and parks Do on the three channels.
SelectPark ==
    /\ pc = "select"
    /\ ~TimeoutReady
    /\ ~ContextReady
    /\ ~ReceiveReady
    /\ pc' = "parked"
    /\ UNCHANGED <<fields, ctxErr, targets, ret, timer, g, nConfig, nDo, outcome,
                   applied, targets0, errors0, received, apart>>

\* The deadline of the timeout context passes while Do is parked:
\* case <-timeout.Done().
WakeTimeout ==
    /\ Parked
    /\ timer = "running"
    /\ ReturnEarly(TimeoutError(timeout), "TimedOut")
    /\ UNCHANGED ctxErr

\* The caller's context is done while Do is parked, and Do returns
\* context.Canceled whatever ended the context.
WakeContext_Canceled(e) ==
    /\ Parked
    /\ context = "ctx"
    /\ ctxErr = NilErr
    /\ ctxErr' = e
    /\ ReturnEarly(ErrCanceled, "Cancelled")

\* The caller's context is done while Do is parked: case <-r.context.Done().
WakeContext(e) ==
    /\ Parked
    /\ context = "ctx"
    /\ ctxErr = NilErr
    /\ ctxErr' = e
    /\ ReturnEarly(e, "Cancelled")

\* case result := <-receive, to the end of Do: selected among the cases that
\* are ready, or the case that wakes the parked Do when the goroutine comes
\* to its send. The goroutine's send completes with it and the goroutine
\* ends.
SelectReceive(result) ==
    /\ pc \in {"select", "parked"}
    /\ ReceiveReady
    /\ result \in Sendable
    /\ LET h == HandleResult(result, targets, errors, responseFormat) IN
        /\ ret' = h.ret
        /\ targets' = h.targets
        /\ errors' = h.errors
        /\ applied' = h.applied
        /\ outcome' = h.outcome
    /\ received' = result
    /\ g' = [g EXCEPT ![nDo].pc = "exited"]
    /\ pc' = "done"
    /\ timer' = "off"
    /\ UNCHANGED <<method, body, header, basicAuth, bearerToken, context,
                   responseFormat, timeout, ctxErr, nConfig, nDo, targets0, errors0, apart>>

\* The receive case of the select, with whatever the goroutine sends.
Receive == \E result \in TransportResults \cup {ReqErrResult} : SelectReceive(result)

\* Whether Do reads the body of a response: for the error of a failed
\* status, or to decode a target (the XML decoder reads nothing for a target
\* that is no pointer).
ReadsBody(result, ts, rf) ==
    \/ StatusFailed(result.status)
    \/ \E i \in 1..Len(ts) :
        LET format == ResolveFormat(rf, result.ctype).format IN
        /\ format # targetFormatZero
        /\ ~(format = targetFormatXML /\ KindOf(ts[i]) # "ptr")

\* Responses whose header has arrived and whose body never ends: the server
\* keeps the connection open and sends no more.
StalledResponses ==
    { [err |-> NilErr, status |-> st, ctype |-> TextPlain, body |-> <<>>,
       readErr |-> FALSE] : st \in {399, 400} }

\* case result := <-receive with such a response: ioutil.ReadAll, or the
\* decoder's read, waits for the rest of the body on the calling path, and
\* Do does not come back from it. Neither the timeout nor the context is
\* looked at any more.
ReceiveStalled(result) ==
    /\ pc \in {"select", "parked"}
    /\ g[nDo].pc = "sendResult"
    /\ ReadsBody(result, targets, responseFormat)
    /\ received' = result
    /\ outcome' = "Reading"
    /\ g' = [g EXCEPT ![nDo].pc = "exited"]
    /\ pc' = "reading"
    /\ UNCHANGED <<fields, ctxErr, targets, ret, timer, nConfig, nDo, applied,
                   targets0, errors0, apart>>

\* ---------------------------------------------------------- specification

Next ==
    \/ \E m \in Methods : Method(m)
    \/ MarshalBody(FALSE, <<>>)
    \/ OtherMarshalBody
    \/ Context
    \/ \E f \in Formats : ResponseFormat(f)
    \/ \E d \in Durations : Timeout(d)
    \/ \E ts \in TargetLists : DoCall(ts)
    \/ \E i \in 1..MaxCalls : GoStart(i)
    \/ \E i \in 1..MaxCalls : TransportReturn(i)
    \/ TimerFire
    \/ \E e \in {ErrCanceled, ErrDeadlineExceeded} : ContextDone(e)
    \/ SelectTimeout
    \/ SelectContext
    \/ SelectPark
    \/ WakeTimeout
    \/ \E e \in {ErrCanceled, ErrDeadlineExceeded} : WakeContext(e)
    \/ Receive
    \/ \E result \in StalledResponses : ReceiveStalled(result)

Spec == Init /\ [][Next]_vars

\* The scheduler runs a goroutine that can take a step, a call into the
\* transport returns, a select with a case that can proceed does not wait
\* on, and the deadline of a timeout context passes.
Fairness ==
    /\ \A i \in 1..MaxCalls : WF_vars(GoStart(i)) /\ WF_vars(TransportReturn(i))
    /\ WF_vars(Receive \/ (\E result \in StalledResponses : ReceiveStalled(result))
               \/ SelectTimeout \/ SelectContext \/ SelectPark)
    /\ WF_vars(TimerFire)
    /\ WF_vars(WakeTimeout)

LiveSpec == Spec /\ Fairness

\* What the marshal funcs of a caller return when they succeed.
RequestBodies == { <<"x">>, <<"y">> }

\* The response the server gives to a caller that builds requests.
WireResult ==
    [err |-> NilErr, status |-> 399, ctype |-> TextPlain, body |-> <<"{", "a", "}">>,
     readErr |-> FALSE]

\* A caller that builds its requests with headers, credentials, bodies and
\* response formats, sets no timeout and no context, and passes no target
\* to Do; the server answers every request the same.
WireNext ==
    \/ \E key \in CallerKeys, value \in HeaderValues : Header(key, value)
    \/ \E hm \in HeaderMaps : Headers(hm)
    \/ BasicAuth("user", "pass")
    \/ \E token \in Tokens : BearerToken(token)
    \/ \E ok \in BOOLEAN, b \in RequestBodies : MarshalBody(ok, b)
    \/ \E f \in Formats : ResponseFormat(f)
    \/ DoCall(<<>>)
    \/ \E i \in 1..MaxCalls : GoStart(i)
    \/ \E i \in 1..MaxCalls : TransportReturn(i)
    \/ SelectPark
    \/ SelectReceive(WireResult)

WireSpec == Init /\ [][WireNext]_vars

\* The variant of Do that has "defer close(receive)" behind its make of the
\* result channel: the channel of a Do call is closed when the call returns.

\* A goroutine has sent on a closed channel, which panics and ends the
\* program.
Panicked == \E i \in 1..MaxCalls : g[i].pc = "panicked"

\* case <-timeout.Done() of the variant, selected among the cases that are
\* ready: return timeout.Err()
SelectTimeoutClosing ==
    /\ pc = "select"
    /\ TimeoutReady
    /\ ReturnEarly(ErrDeadlineExceeded, "TimedOut")
    /\ UNCHANGED ctxErr

\* The deadline of the timeout context passes while the variant's Do is
\* parked.
WakeTimeoutClosing ==
    /\ Parked
    /\ timer = "running"
    /\ ReturnEarly(ErrDeadlineExceeded, "TimedOut")
    /\ UNCHANGED ctxErr

\* receive <- doResult{...} in goroutine i once the Do call that started it
\* has returned and its deferred close(receive) has run.
SendOnClosed(i) ==
    /\ g[i].pc \in {"sendReqErr", "sendResult"}
    /\ i < nDo \/ (i = nDo /\ pc \in {"idle", "done"})
    /\ g' = [g EXCEPT ![i].pc = "panicked"]
    /\ UNCHANGED <<fields, ctxErr, pc, targets, ret, timer, nConfig, nDo, outcome,
                   applied, targets0, errors0, received, apart>>

\* The variant has no targets passed to Do and none set; a panic ends the
\* program.
ClosingNext ==
    \/ ~Panicked /\ \E m \in Methods : Method(m)
    \/ ~Panicked /\ Context
    \/ ~Panicked /\ \E d \in Durations : Timeout(d)
    \/ ~Panicked /\ DoCall(<<>>)
    \/ ~Panicked /\ \E i \in 1..MaxCalls : GoStart(i)
    \/ ~Panicked /\ \E i \in 1..MaxCalls : TransportReturn(i)
    \/ ~Panicked /\ TimerFire
    \/ ~Panicked /\ \E e \in {ErrCanceled, ErrDeadlineExceeded} : ContextDone(e)
    \/ ~Panicked /\ SelectTimeoutClosing
    \/ ~Panicked /\ SelectContext
    \/ ~Panicked /\ SelectPark
    \/ ~Panicked /\ WakeTimeoutClosing
    \/ ~Panicked /\ \E e \in {ErrCanceled, ErrDeadlineExceeded} : WakeContext(e)
    \/ ~Panicked /\ Receive
    \/ ~Panicked /\ \E i \in 1..MaxCalls : SendOnClosed(i)

ClosingSpec == Init /\ [][ClosingNext]_vars

\* ------------------------------------------------------------- claims

\* A Do call has returned.
Returned == pc = "done" /\ nDo >= 1

\* The last Do call received a response (no transport error).
GotResponse == Returned /\ received # NoResult /\ received.err = NilErr

\* C1: a response with a status code >= 400 leaves every target and the
\* accumulator as they were, has no format resolved and nothing decoded, and
\* makes Do return "request failed with status <code>: <body text>", with the
\* read error's text in place of the body when the body cannot be read; a
\* status code < 400 does not fail the call at the status check.
C1_StatusCheck ==
    GotResponse =>
        IF received.status >= 400
        THEN /\ targets = targets0
             /\ applied = <<>>
             /\ errors = errors0
             /\ ret = ErrorOf(<<"request failed with status ", Itoa(received.status), ": ">>
                              \o (IF received.readErr THEN ErrRead.msg ELSE received.body))
        ELSE /\ Len(applied) = Len(targets0)
             /\ ret.kind \in {"nil", "MultiError"}

C1_Witness ==
    /\ GotResponse
    /\ received.status = 400
    /\ received.readErr
    /\ Len(targets0) = 2
    /\ ret.kind = "error"

\* C2: with a non-empty accumulator Do returns the composite of the
\* accumulated errors at once: no goroutine is started, no request built, no
\* timeout context created, no target touched.
C2_ShortCircuit ==
    (nDo >= 1 /\ errors0 # <<>>) =>
        /\ pc = "done"
        /\ ret = MultiErrorOf(errors0)
        /\ g[nDo] = NoGoroutine
        /\ timer = "off"
        /\ received = NoResult
        /\ targets = targets0
        /\ errors = errors0

C2_Witness ==
    /\ Returned
    /\ errors0 = <<ErrMarshal>>
    /\ timeout.set
    /\ Len(targets0) = 1
    /\ ret = MultiErrorOf(<<ErrMarshal>>)

\* One of the steps of the select: Do leaves the wait and returns.
Returns == pc \in {"select", "parked"} /\ pc' = "done"

\* A step of the surroundings of a returned Do call: the goroutine, the
\* transport, a deadline or a cancellation, and no call by the caller.
Afterwards == pc = "done" /\ pc' = "done" /\ nDo' = nDo

\* C3: a Do call that dispatched ends in exactly one way: by the timeout
\* (without having received a result), by the cancellation (likewise), or by
\* receiving the one result, which is a transport failure, a status failure
\* or decoded. At the wait every case that is ready can be the one selected,
\* and once Do has returned, no later event changes the error returned, the
\* accumulator or the targets.
C3_OneOutcome ==
    /\ [](pc = "select" =>
            /\ TimeoutReady => ENABLED SelectTimeout
            /\ ContextReady => ENABLED SelectContext
            /\ ReceiveReady => ENABLED Receive)
    /\ []((Returned /\ errors0 = <<>>) =>
            \/ /\ received = NoResult
               /\ g[nDo].pc # "exited"
               /\ ret.kind = "error"
               /\ ret.msg[1] = "exceeded request timeout of "
               /\ ctxErr # ret
            \/ /\ received = NoResult
               /\ g[nDo].pc # "exited"
               /\ ret = ctxErr
            \/ /\ received # NoResult
               /\ g[nDo].pc = "exited"
               /\ \/ received.err # NilErr /\ ret = received.err
                  \/ received.err = NilErr /\ received.status >= 400 /\ ret.kind = "error"
                  \/ received.err = NilErr /\ received.status < 400
                     /\ ret.kind \in {"nil", "MultiError"})
    /\ [][Afterwards => UNCHANGED <<ret, errors, targets>>]_vars

\* All three cases are ready at the wait.
C3_Witness ==
    /\ pc = "select"
    /\ TimeoutReady
    /\ ContextReady
    /\ ReceiveReady

\* C4: when Do has returned because of the timeout or the cancellation, the
\* goroutine it started delivers or drops its result and ends: it does not
\* stay at its send on the result channel.
C4_DispatchTerminates ==
    \A i \in 1..MaxCalls :
        []((pc = "done" /\ nDo = i /\ outcome \in {"TimedOut", "Cancelled"})
            => <>(g[i].pc = "exited"))

\* The error Do returns from the timeout case.
IsTimeoutError(e) == e.kind = "error" /\ e.msg[1] = "exceeded request timeout of "

\* C5: Do returns the timeout error only with a timeout configured whose
\* clock has elapsed (before the select, or while Do is parked in it) and
\* without having taken a result; the error then names the configured
\* duration, and targets and accumulator stay as they were. With no timeout
\* configured there is no clock and no timed-out call. A call that takes a
\* result goes on to the status check and the decoding and returns no timeout
\* error, and with a result ready, the clock not elapsed and no cancellation,
\* taking the result is the one way on.
C5_TimeoutError ==
    /\ [][(Returns /\ IsTimeoutError(ret')) =>
            /\ timeout.set
            /\ TimeoutReady \/ (Parked /\ timer = "running")
            /\ received' = NoResult
            /\ g' = g
            /\ outcome' = "TimedOut"
            /\ ret' = ErrorOf(<<"exceeded request timeout of ", DurationString(timeout.d)>>)
            /\ targets' = targets
            /\ errors' = errors]_vars
    /\ [](~timeout.set =>
            /\ timer = "off"
            /\ outcome # "TimedOut"
            /\ ~ENABLED SelectTimeout
            /\ ~ENABLED WakeTimeout)
    /\ [][(Returns /\ received' # NoResult) =>
            /\ ~IsTimeoutError(ret')
            /\ outcome' \in {"TransportFailed", "StatusFailed", "Decoding"}]_vars
    /\ []((pc \in {"select", "parked"} /\ ReceiveReady /\ ~TimeoutReady /\ ~ContextReady) =>
            /\ ENABLED Receive
            /\ ~ENABLED SelectTimeout
            /\ ~ENABLED WakeTimeout
            /\ ~ENABLED SelectContext
            /\ ~ENABLED SelectPark)

\* The timeout was selected although a result was ready.
C5_Witness ==
    /\ Returned
    /\ outcome = "TimedOut"
    /\ timeout = [set |-> TRUE, d |-> 1000000]
    /\ ret = ErrorOf(<<"exceeded request timeout of ", "1ms">>)
    /\ g[nDo].pc = "sendResult"
    /\ Len(targets0) = 2
    /\ targets = targets0

\* The cancellation has fired when Do comes to the select and no timeout has
\* elapsed, or it fires while Do is parked with no result on the channel.
FiredBeforeDelivery ==
    \/ pc = "select" /\ ContextReady /\ ~TimeoutReady
    \/ Parked /\ ctxErr' # NilErr

\* As above, and no result is ready at the select either.
FiredAlone ==
    \/ pc = "select" /\ ContextReady /\ ~TimeoutReady /\ ~ReceiveReady
    \/ Parked /\ ctxErr' # NilErr

\* A return of Do by one of the cases that do not read the context: the
\* timeout case with the clock elapsed, or the receive case with a result
\* the goroutine sends, handled as HandleResult handles it.
ReturnsWithoutContext ==
    \/ /\ TimeoutReady \/ (Parked /\ timer = "running")
       /\ received' = NoResult
       /\ ret' = TimeoutError(timeout)
       /\ targets' = targets
       /\ errors' = errors
    \/ /\ ReceiveReady
       /\ received' \in Sendable
       /\ LET h == HandleResult(received', targets, errors, responseFormat) IN
            /\ ret' = h.ret
            /\ targets' = h.targets
            /\ errors' = h.errors

\* A Do call that ends with the signal not fired ends as a call without a
\* context does.
C6_NeverFired ==
    [][(Returns /\ ctxErr' = NilErr) =>
        /\ outcome' # "Cancelled"
        /\ ReturnsWithoutContext]_vars

C7_EveryTargetDecoded ==
    (Returned /\ outcome = "Decoding" /\ errors = <<>>) =>
        /\ ret = NilErr
        /\ \A i \in 1..Len(targets0) :
            targets[i] = DecodeOne(applied[i], StreamOf(received), targets0[i]).target

\* C8: with the content-type response format and a Content-Type header that
\* is absent or does not parse, every target is decoded with the bytes
\* strategy all the same, and a byte slice target holds the response body.
C8_BytesFallback ==
    (/\ Returned
     /\ outcome = "Decoding"
     /\ responseFormat = ResponseFormatContentType
     /\ inferTargetFormat(received.ctype).err # NilErr) =>
        \A i \in 1..Len(targets0) :
            /\ applied[i] = targetFormatBytes
            /\ targets0[i].type = "*[]uint8" => targets[i].val = received.body

\* A Content-Type header with a media type and well-formed parameters.
WellFormed(v) == v.base # "" /\ \A k \in 1..Len(v.params) : v.params[k].key # ""

\* C9: with the content-type response format and a well-formed Content-Type
\* header, every target is decoded with the strategy of the media type,
\* whatever its case and its parameters: application/json with JSON,
\* text/xml and application/xml with XML, any other with bytes.
C9_ContentTypeStrategy ==
    (/\ Returned
     /\ outcome = "Decoding"
     /\ responseFormat = ResponseFormatContentType
     /\ WellFormed(received.ctype)) =>
        /\ Len(applied) = Len(targets0)
        /\ \A i \in 1..Len(targets0) :
            applied[i] = CASE received.ctype.base = "application/json" -> targetFormatJSON
                           [] received.ctype.base \in {"text/xml", "Application/XML"} -> targetFormatXML
                           [] OTHER -> targetFormatBytes

\* application/xml in capitals and with a charset, decoded into two targets.
C9_Witness ==
    /\ Returned
    /\ outcome = "Decoding"
    /\ responseFormat = ResponseFormatContentType
    /\ received.ctype = [base |-> "Application/XML", params |-> <<CharsetParam>>]
    /\ applied = <<targetFormatXML, targetFormatXML>>

\* C10: with a response format that is none of content-type, json, xml and
\* bytes, a Do call that gets a response with a status below 400 appends one
\* "found unknown response format <format>" per target, in order, whatever
\* the Content-Type and the body are, changes no target, applies no strategy,
\* and returns the composite error unless there is no target.
C10_UnknownFormat ==
    (/\ Returned
     /\ outcome = "Decoding"
     /\ responseFormat \notin {ResponseFormatContentType, ResponseFormatJSON,
                               ResponseFormatXML, ResponseFormatBytes}) =>
        /\ errors = errors0 \o [i \in 1..Len(targets0) |->
                        ErrorOf(<<"found unknown response format ", responseFormat>>)]
        /\ targets = targets0
        /\ applied = [i \in 1..Len(targets0) |-> targetFormatZero]
        /\ ret = IF Len(targets0) >= 1 THEN MultiErrorOf(errors) ELSE NilErr

\* The empty response format, a JSON response, two targets.
C10_Witness ==
    /\ Returned
    /\ outcome = "Decoding"
    /\ responseFormat = ""
    /\ received.ctype.base = "application/json"
    /\ Len(targets0) = 2
    /\ Len(errors) = 2
    /\ ret.kind = "MultiError"

\* The target loop of the last Do call, run over its first k targets only.
After(k) ==
    DecodeTargets(1, responseFormat, received.ctype,
        [targets |-> SubSeq(targets0, 1, k), errors |-> errors0,
         stream |-> StreamOf(received), applied |-> <<>>])

\* The target loop of the last Do call after each of its targets, from none
\* of them to all of them.
Stages == [k \in 0..Len(targets0) |-> After(k)]

\* C11: the targets are processed in the order passed, all of them: an error
\* recorded for one target stops neither the format resolution nor the
\* decoding of a later one, a later target changes nothing of what an
\* earlier one was given, the errors are recorded in target order, and Do
\* returns the composite of all of them after the last target.
C11_PartialCompletion ==
    (Returned /\ outcome = "Decoding") =>
        LET at == Stages IN
        /\ Len(applied) = Len(targets0)
        /\ Len(targets) = Len(targets0)
        /\ \A i \in 1..Len(targets0) :
            /\ applied[i] = ResolveFormat(responseFormat, received.ctype).format
            /\ targets[i] = DecodeOne(applied[i], at[i - 1].stream, targets0[i]).target
            /\ targets[i] = at[i].targets[i]
            /\ Len(at[i].errors) <= Len(errors)
            /\ at[i].errors = SubSeq(errors, 1, Len(at[i].errors))
        /\ errors = at[Len(targets0)].errors
        /\ ret = IF errors = <<>> THEN NilErr ELSE MultiErrorOf(errors)

\* The first target records an error, the second is decoded all the same.
C11_Witness ==
    /\ Returned
    /\ outcome = "Decoding"
    /\ Len(targets0) = 2
    /\ After(1).errors # <<>>
    /\ targets[1] = targets0[1]
    /\ targets[2] # targets0[2]
    /\ targets[2].val = <<"a">>
    /\ ret = MultiErrorOf(After(1).errors)

\* The errors the target loop appended for one target, from the loop as it
\* was before that target and after it.
AppendedFor(before, after) ==
    SubSeq(after.errors, Len(before.errors) + 1, Len(after.errors))

\* The error of reading the body for a target, if reading it fails, from the
\* loop as it was before that target.
ReadErrsFor(before) == IF before.stream.readErr THEN <<ErrRead>> ELSE <<>>

\* C12: under the bytes strategy a target that is no pointer stays as it was
\* and has one "expected pointer kind, encountered <kind> ..." appended, a
\* pointer to something other than a byte slice stays as it was and has one
\* "expected byte slice elem, encountered <type> ..." appended, and a pointer
\* to a byte slice has its content replaced by the bytes read and no error
\* about its shape; an error of reading the body comes before these.
C12_BytesTarget ==
    (Returned /\ outcome = "Decoding") =>
        LET at == Stages IN
        \A i \in 1..Len(targets0) :
            applied[i] = targetFormatBytes =>
                CASE targets0[i].type = "rekwest.responseType" ->
                        /\ targets[i] = targets0[i]
                        /\ AppendedFor(at[i - 1], at[i]) = ReadErrsFor(at[i - 1]) \o
                              <<ErrorOf(<<"expected pointer kind, encountered ", "struct",
                                          " when decoding into target element">>)>>
                  [] targets0[i].type = "*rekwest.responseType" ->
                        /\ targets[i] = targets0[i]
                        /\ AppendedFor(at[i - 1], at[i]) = ReadErrsFor(at[i - 1]) \o
                              <<ErrorOf(<<"expected byte slice elem, encountered ",
                                          "rekwest.responseType",
                                          " when decoding into target element">>)>>
                  [] targets0[i].type = "*[]uint8" ->
                        /\ targets[i] = [targets0[i] EXCEPT !.val = at[i - 1].stream.rest]
                        /\ AppendedFor(at[i - 1], at[i]) = ReadErrsFor(at[i - 1])

\* A struct passed by value, then a pointer to a struct, both under bytes.
C12_Witness ==
    /\ Returned
    /\ outcome = "Decoding"
    /\ applied = <<targetFormatBytes, targetFormatBytes>>
    /\ targets0[1].type = "rekwest.responseType"
    /\ targets0[2].type = "*rekwest.responseType"
    /\ targets = targets0
    /\ Len(errors) = 2
    /\ errors[1].msg[2] = "struct"
    /\ errors[2].msg[2] = "rekwest.responseType"

\* C13: at every point of the instance's life, after Do calls too, Errors()
\* holds the errors met while building the request and no other, so that
\* OK() is true exactly when building the request met no error.
C13_OnlyBuildErrors ==
    /\ errors = built
    /\ OK(errors) <=> built = <<>>

\* C14: when the response format in effect is JSON or XML, the wire request
\* the goroutine builds carries the Accept header of that format.
C14_AcceptHeader ==
    [][\A i \in 1..MaxCalls :
        (g[i].pc = "start" /\ g'[i].pc = "transport") =>
            /\ responseFormat = ResponseFormatJSON =>
                    g'[i].wire.header["Accept"] = <<acceptJSON>>
            /\ responseFormat = ResponseFormatXML =>
                    g'[i].wire.header["Accept"] = <<acceptXML>>]_vars

\* C15: a Do call that passed the accumulator check and ends without a
\* result (by the timeout or the cancellation), with a transport error (a
\* request that cannot be built included) or with a status of 400 or more
\* returns that one error as it is, no composite, and leaves the accumulator,
\* and with it OK(), and every target as they were.
C15_SingleError ==
    (/\ Returned
     /\ errors0 = <<>>
     /\ received = NoResult \/ received.err # NilErr \/ received.status >= 400) =>
        /\ ret.kind = "error"
        /\ ret = CASE received = NoResult /\ outcome = "TimedOut" ->
                        ErrorOf(<<"exceeded request timeout of ", DurationString(timeout.d)>>)
                   [] received = NoResult /\ outcome # "TimedOut" -> ctxErr
                   [] received.err # NilErr -> received.err
                   [] OTHER -> ErrorOf(<<"request failed with status ",
                                         Itoa(received.status), ": ">>
                                       \o (IF received.readErr THEN ErrRead.msg
                                           ELSE received.body))
        /\ errors = errors0
        /\ OK(errors)
        /\ targets = targets0
        /\ applied = <<>>

\* A request that cannot be built, two targets.
C15_Witness ==
    /\ Returned
    /\ errors0 = <<>>
    /\ received.err = ErrNewRequest
    /\ ret = ErrNewRequest
    /\ Len(targets0) = 2
    /\ targets = targets0
    /\ OK(errors)

RECURSIVE MessagesUpTo(_)
\* The messages of the first k accumulated errors, each after the first
\* behind a ", ".
MessagesUpTo(k) ==
    IF k = 0 THEN <<>>
    ELSE IF k = 1 THEN errors[1].msg
    ELSE MessagesUpTo(k - 1) \o <<", ">> \o errors[k].msg

\* C16: the composite error Do returns holds the accumulated errors in the
\* order they were appended, and its message is their messages joined with
\* ", " in that order: the errors there were when Do was called (on a fresh
\* instance the configuration errors in call order), then the errors of the
\* targets in target order.
C16_CompositeMessage ==
    (Returned /\ ret.kind = "MultiError") =>
        /\ ret.Errors = errors
        /\ ErrorMsg(ret) = MessagesUpTo(Len(errors))
        /\ Len(errors0) <= Len(errors)
        /\ SubSeq(errors, 1, Len(errors0)) = errors0
        /\ nDo = 1 => errors0 = built
        /\ outcome = "Decoding" =>
            LET at == Stages IN
            /\ \A i \in 1..Len(targets0) :
                AppendedFor(at[i - 1], at[i]) =
                    SubSeq(errors, Len(at[i - 1].errors) + 1, Len(at[i].errors))
            /\ Len(errors) = Len(at[Len(targets0)].errors)

\* Two targets with an error each.
C16_Witness ==
    /\ Returned
    /\ ret.kind = "MultiError"
    /\ ErrorMsg(ret) = <<"expected pointer kind, encountered ", "struct",
                         " when decoding into target element", ", ",
                         "expected byte slice elem, encountered ", "rekwest.responseType",
                         " when decoding into target element">>

\* Do leaves the select by its receive case.
Takes == pc \in {"select", "parked"} /\ pc' \in {"done", "reading"}

\* The steps a goroutine takes, as pairs of where it is before and after.
GoSteps ==
    { <<"none", "start">>, <<"start", "sendReqErr">>, <<"start", "transport">>,
      <<"transport", "sendResult">>, <<"sendReqErr", "exited">>,
      <<"sendResult", "exited">> }

\* C17: a Do call that passes the accumulator check starts one goroutine,
\* with or without a timeout and a context and with the context done
\* already, and a call that does not pass starts none. The goroutine calls
\* the transport at most once and comes to one send: of the error of a
\* request that cannot be built, without a transport call, or of what the
\* transport returned. Do takes at most one result per call, from its own
\* goroutine.
C17_OneDispatch ==
    /\ [](\A i \in 1..MaxCalls : g[i].pc # "none" => i <= nDo)
    /\ []((nDo >= 1 /\ pc # "idle") => (g[nDo].pc # "none" <=> errors0 = <<>>))
    /\ [][nDo' = nDo + 1 =>
            /\ \A i \in 1..MaxCalls : i # nDo' => g'[i] = g[i]
            /\ g'[nDo'].pc = IF OK(errors) THEN "start" ELSE "none"]_vars
    /\ [][\A i \in 1..MaxCalls : g'[i] # g[i] =>
            /\ <<g[i].pc, g'[i].pc>> \in GoSteps
            /\ g'[i].pc = "start" => i = nDo + 1 /\ nDo' = i
            /\ g'[i].pc = "transport" => ValidMethod(method)
            /\ g'[i].pc = "sendReqErr" => ~ValidMethod(method)
            /\ g'[i].pc = "exited" =>
                /\ i = nDo
                /\ Takes
                /\ received = NoResult
                /\ received' # NoResult
                /\ g[i].pc = "sendReqErr" <=> received' = ReqErrResult]_vars
    /\ [][received' # received =>
            \/ received' = NoResult
            \/ received = NoResult /\ Takes /\ g[nDo].pc \in {"sendReqErr", "sendResult"}
               /\ g'[nDo].pc = "exited"]_vars

\* A call made with the context done already and no timeout: its goroutine
\* has run and stands at the send of the error of building the request.
C17_Witness ==
    /\ pc = "select"
    /\ ContextReady
    /\ ~timeout.set
    /\ g[nDo].pc = "sendReqErr"

\* C18: Do returns in the end, given that the transport call returns: the
\* calling path waits in the select and nowhere else, so that a Do call that
\* has passed the accumulator check comes back by the timeout, by the
\* cancellation or with the result.
C18_DoReturns ==
    (pc \in {"select", "parked", "reading"}) ~> (pc = "done")

\* a is b, or b without the entries it ends with.
IsPrefix(a, b) == Len(a) <= Len(b) /\ SubSeq(b, 1, Len(a)) = a

\* C19: every step leaves the accumulator of an instance as it was or with
\* entries added at its end, so that what was seen of it earlier is a prefix
\* of what is seen later and nothing is removed, reordered or merged; and a
\* step that adds to the accumulator of one instance leaves the other
\* instance, its accumulator and its fields, as it was.
C19_AppendOnly ==
    /\ [][IsPrefix(errors, errors') /\ IsPrefix(otherErrors, otherErrors')]_vars
    /\ [][errors' # errors => otherErrors' = otherErrors]_vars
    /\ [][otherErrors' # otherErrors => UNCHANGED <<fields, last, g, built>>]_vars
    /\ [](IsPrefix(errors0, errors))

\* An error of a Do call, then an error of a configuration call, and an
\* error on the other instance.
C19_Witness ==
    /\ Len(errors) = 2
    /\ errors[1] # ErrMarshal
    /\ errors[2] = ErrMarshal
    /\ otherErrors = <<ErrMarshal>>

\* The accumulator holds an error that no configuration call put there: an
\* earlier Do call appended it.
DoAppended == Len(errors) > Len(built)

\* C20: once a Do call has appended an error of resolving a format or of
\* decoding, every later Do call on the instance, whatever configuration
\* calls came in between, returns the composite of the accumulated errors,
\* the earlier call's among them, at once: no goroutine, no timeout context,
\* no result, no target touched.
C20_LaterDoShortCircuits ==
    /\ [](Len(built) <= Len(errors))
    /\ [][DoAppended => DoAppended']_vars
    /\ [][(nDo' = nDo + 1 /\ DoAppended) =>
            /\ pc' = "done"
            /\ ret' = MultiErrorOf(errors)
            /\ \E k \in 1..Len(errors) : errors[k] # ErrMarshal
            /\ errors' = errors
            /\ g' = g
            /\ g[nDo'] = NoGoroutine
            /\ timer' = "off"
            /\ received' = NoResult
            /\ targets' = targets0']_vars

\* The second Do call, made after a first one under the content-type format
\* had recorded a media type error and the format had been set to bytes.
C20_Witness ==
    /\ Returned
    /\ outcome = "NotOK"
    /\ nDo = 2
    /\ nConfig = 1
    /\ responseFormat = ResponseFormatBytes
    /\ built = <<>>
    /\ ret = MultiErrorOf(<<ErrorOf(<<"mime: no media type">>)>>)
    /\ Len(targets0) = 1
    /\ g[2] = NoGoroutine

\* The Do call that started goroutine i has returned to its caller.
CallReturned(i) == i < nDo \/ (i = nDo /\ pc \in {"idle", "done"})

\* Goroutine i has yet to read r.method, r.url, r.body, r.header,
\* r.basicAuth, r.bearerToken and r.client.
ReadsFields(i) == g[i].pc = "start"

\* C21: once a Do call has returned, by whatever outcome, the goroutine it
\* started has no read of the instance's fields before it any more, so that
\* a configuration call made after the return cannot meet such a read.
C21_NoReadAfterReturn ==
    \A i \in 1..MaxCalls : CallReturned(i) => ~ReadsFields(i)

\* The response formats that force a decoding strategy.
Forced == {ResponseFormatJSON, ResponseFormatXML, ResponseFormatBytes}

\* C22: with a forced response format, a Do call that receives a response
\* ends as it would have ended with any other Content-Type header on that
\* response, well-formed, malformed or absent: the same error returned, the
\* same targets, the same accumulator.
C22_ContentTypeIgnored ==
    [][(/\ pc \in {"select", "parked"}
        /\ pc' = "done"
        /\ received'.status # 0
        /\ responseFormat \in Forced) =>
            \A ct \in ContentTypes :
                LET h == HandleResult([received' EXCEPT !.ctype = ct], targets, errors,
                                      responseFormat) IN
                /\ ret' = h.ret
                /\ targets' = h.targets
                /\ errors' = h.errors]_vars

\* JSON forced, a response that says text/xml and holds JSON, one target
\* decoded.
C22_Witness ==
    /\ Returned
    /\ responseFormat = ResponseFormatJSON
    /\ received.ctype.base = "text/xml"
    /\ Len(targets0) = 1
    /\ targets # targets0
    /\ ret = NilErr
    /\ errors = <<>>

\* Goroutine i builds its wire request and goes on to r.client.Do(req).
Dispatches(i) == g[i].pc = "start" /\ g'[i].pc = "transport"

\* Credentials are set that replace the Authorization header.
CredentialsSet == basicAuth.set \/ bearerToken # ""

C24_CredentialOrder ==
    [][\A i \in 1..MaxCalls : Dispatches(i) =>
        g'[i].wire.header["Authorization"] =
            IF bearerToken # "" THEN <<"Bearer ", bearerToken>>
            ELSE IF basicAuth.set
            THEN <<"Basic ", "base64(", basicAuth.userName, ":", basicAuth.password, ")">>
            ELSE IF added["Authorization"] # <<>> THEN <<added["Authorization"][1]>>
            ELSE <<>>]_vars

\* Basic auth and a bearer token are both set: the bearer token is sent.
C24_Witness ==
    /\ g[1].pc = "transport"
    /\ basicAuth.set
    /\ bearerToken = "tok"
    /\ g[1].wire.header["Authorization"] = <<"Bearer ", "tok">>

\* C25: a MarshalBody call (JSONBody and XMLBody go through it) returns
\* whatever its marshal func does. When the marshal func fails, the
\* accumulator is what it was with that one error behind it and the body
\* stays what it was; when it succeeds, the body is the bytes it returned
\* and the accumulator stays what it was. No other field changes.
C25_MarshalBodyFrame ==
    [][\A ok \in BOOLEAN, b \in RequestBodies :
        MarshalBody(ok, b) =>
            /\ ok => body' = b /\ errors' = errors
            /\ ~ok =>
                /\ body' = body
                /\ Len(errors') = Len(errors) + 1
                /\ SubSeq(errors', 1, Len(errors)) = errors
                /\ errors'[Len(errors')] = ErrMarshal
            /\ UNCHANGED <<method, header, basicAuth, bearerToken, context,
                           responseFormat, timeout>>]_vars

\* A body was set by a marshal func that succeeded, and a marshal func that
\* failed left its error.
C25_Witness ==
    /\ pc = "idle"
    /\ nConfig = 2
    /\ body = <<"x">>
    /\ errors = <<ErrMarshal>>
    /\ built = <<ErrMarshal>>

\* C26: under the bytes strategy a target for which the decode step
\* recorded an error, the error of reading the body included, is left as it
\* was passed.
C26_NoOverwriteOnError ==
    (Returned /\ outcome = "Decoding") =>
        LET at == Stages IN
        \A i \in 1..Len(targets0) :
            (applied[i] = targetFormatBytes /\ AppendedFor(at[i - 1], at[i]) # <<>>) =>
                targets[i] = targets0[i]

\* C27: in the variant of Do that closes the result channel when it
\* returns, no goroutine sends on a closed channel, whether Do returned by
\* the timeout, by the cancellation or otherwise before the goroutine came
\* to its send.
C27_NoSendOnClosed == ~Panicked

====
